---- MODULE Spec2Model ----
(***************************************************************************)
(* State-machine model of the CH559 bootloader flasher (src/src/ch559.rs,  *)
(* src/src/main.rs): the session object Ch559, the bulk transport          *)
(* send_receive, the lazy reset-key handshake and the chunked erase /      *)
(* read / write / verify command sequences, together with a model of the  *)
(* bootloader device on the other end of the bulk pipe.                    *)
(*                                                                         *)
(* Every device command is one step of the model: an OUT transfer          *)
(* followed by its IN response, with the outcome of the transfer and the   *)
(* answer of the device drawn from small sets.                             *)
(***************************************************************************)
EXTENDS Integers, Sequences, FiniteSets, TLC

(***************************************************************************)
(* Bounds of the model.                                                    *)
(***************************************************************************)
\* Length of a run, in events: the flash operations (erase, erase_data,
\* read_data, write) called on the session, plus the misbehaviours of the
\* environment (failed or short bulk transfers, error statuses of the
\* device, failed file reads and writes).
MaxEvents == 3
\* Longest code image the model writes or verifies.
MaxCode == 100
\* Largest number of fill bytes one write operation generates.
MaxPad == 24
\* Endpoint descriptors in an alternate setting.
MaxEps == 3

(***************************************************************************)
(* Program constants.                                                      *)
(***************************************************************************)
CHUNK == 56
DATA_SIZE == 1024
CODE_LIMIT == 62464
CODE_FILL == 61440
DATA_FLASH_ADDR == 61440
ERASE_SIZE == 60
CHIP_CH559 == 89
OP_DETECT == 161
OP_IDENTIFY == 167
OP_RESET_KEY == 163
OP_ERASE == 164
OP_ERASE_DATA == 169
OP_READ == 171
OP_WRITE_DATA == 170
OP_WRITE_CODE == 165
OP_VERIFY == 166
KEY_LEN == 48
FILLER == 255

FlashOpcodes ==
    {OP_ERASE, OP_ERASE_DATA, OP_READ, OP_WRITE_DATA, OP_WRITE_CODE, OP_VERIFY}

(***************************************************************************)
(* Byte arithmetic.                                                        *)
(***************************************************************************)
Byte == 0..255

RECURSIVE Xor(_, _)
\* a ^ b on u8 values.
Xor(a, b) ==
    IF a = 0 THEN b
    ELSE IF b = 0 THEN a
    ELSE ((a + b) % 2) + 2 * Xor(a \div 2, b \div 2)

\* u8::wrapping_add
wrapping_add(a, b) == (a + b) % 256

\* `x as u8`
AsU8(x) == x % 256

\* `x as u16` and arithmetic on u16
AsU16(x) == x % 65536

\* (len + 7) & !7
AlignUp8(len) == ((len + 7) \div 8) * 8

\* A function on 1..n as a sequence value.
AsSeq(f) == f \o <<>>

Zeros(n) == AsSeq([i \in 1..n |-> 0])

\* Decimal rendering of a u8, as format!("{}", byte) does it.
Digit(d) == <<"0", "1", "2", "3", "4", "5", "6", "7", "8", "9">>[d + 1]

ByteToString(b) ==
    IF b < 10 THEN Digit(b)
    ELSE IF b < 100 THEN Digit(b \div 10) \o Digit(b % 10)
    ELSE Digit(b \div 100) \o Digit((b \div 10) % 10) \o Digit(b % 10)

(***************************************************************************)
(* Source files handed to write(): metadata and contents.                  *)
(***************************************************************************)
Files ==
    { [name |-> "data.bin", exists |-> TRUE, regular |-> TRUE,
       len |-> 1024, salt |-> 3, content |-> <<>>],
      [name |-> "short.bin", exists |-> TRUE, regular |-> TRUE,
       len |-> 1000, salt |-> 3, content |-> <<>>],
      [name |-> "code.bin", exists |-> TRUE, regular |-> TRUE,
       len |-> 100, salt |-> 5, content |-> <<>>],
      [name |-> "chunk.bin", exists |-> TRUE, regular |-> TRUE,
       len |-> 56, salt |-> 5, content |-> <<>>],
      [name |-> "empty.bin", exists |-> TRUE, regular |-> TRUE,
       len |-> 0, salt |-> 0, content |-> <<>>],
      [name |-> "huge.bin", exists |-> TRUE, regular |-> TRUE,
       len |-> 62465, salt |-> 7, content |-> <<>>],
      [name |-> "dir", exists |-> TRUE, regular |-> FALSE,
       len |-> 1024, salt |-> 0, content |-> <<>>],
      [name |-> "missing.bin", exists |-> FALSE, regular |-> FALSE,
       len |-> 0, salt |-> 0, content |-> <<>>] }

\* Byte i (from 0) of file f: a file read_data wrote carries its contents,
\* the others are patterns told apart by their salt.
FileByte(f, i) ==
    IF f.content /= <<>> THEN f.content[i + 1]
    ELSE (i * 7 + f.salt * 37) % 256

\* Values rand::random::<u8>() may return for the i-th fill byte of a chunk:
\* the generator is the thread-local one, seeded by the operating system, so
\* each call is a free choice; the model draws one of these streams per chunk.
RandStreams == {0, 1}

\* Seeds the command line may give (--seed).
Seeds == {1, 2}

RandByte(r, i) == (r * 101 + i * 29 + 17) % 256

(***************************************************************************)
(* The bootloader device.  Its flash is one physical address space, kept   *)
(* in blocks of 8 cells; only programmed blocks are stored, an erased cell *)
(* reads FILLER.  The data flash sits at DATA_FLASH_ADDR: the write-data   *)
(* and read commands take an offset into it, the write-code and verify     *)
(* commands a physical address (the comments at ch559.rs:353 and           *)
(* ch559.rs:385, and the address chosen at ch559.rs:401).                  *)
(***************************************************************************)
EmptyFlash == << >>

ErasedBlock == AsSeq([j \in 1..8 |-> FILLER])

BlockAt(fl, b) == IF b \in DOMAIN fl THEN fl[b] ELSE ErasedBlock

FlashAt(fl, a) == BlockAt(fl, a \div 8)[(a % 8) + 1]

\* The n cells from physical address base.
FlashRange(fl, base, n) == AsSeq([i \in 1..n |-> FlashAt(fl, base + i - 1)])

\* The flash with bytes stored from physical address base.
Program(fl, base, bytes) ==
    LET top == base + Len(bytes) - 1
        hit == (base \div 8)..(top \div 8)
    IN  [b \in hit |->
            AsSeq([j \in 1..8 |->
                    LET a == 8 * b + j - 1
                    IN  IF a >= base /\ a <= top THEN bytes[a - base + 1]
                        ELSE FlashAt(fl, a)])] @@ fl

\* The flash with the cells lo..hi erased.
EraseCells(fl, lo, hi) ==
    [b \in {x \in DOMAIN fl : 8 * x < lo \/ 8 * x + 7 > hi} |-> fl[b]]
        @@ EmptyFlash

\* The data region as read_data is to deliver it.
DataRegion(fl) == FlashRange(fl, DATA_FLASH_ADDR, DATA_SIZE)

\* Header of a device response: the status is the byte at offset 4.
DevHeader(opcode, status) == <<opcode, 0, 2, 0, status, 0>>

\* Payload of a write or verify request as the device decodes it: the last
\* byte of every block of 8 comes XORed with the chip id.
DevDecode(req) ==
    AsSeq([i \in 1..req[8] |->
            IF (i - 1) % 8 = 7 THEN Xor(req[8 + i], CHIP_CH559) ELSE req[8 + i]])

DevAddress(req) == req[4] + 256 * req[5]

\* The 30 bytes the bootloader answers to identify: its version at offsets
\* 19..21, the four bytes the key is derived from at offsets 22..25.
IdentifyResponse ==
    <<167, 0, 26, 0, 0, 0, 0, 0, 0, 0, 0, 0, 0, 0, 0, 0, 0, 0, 0,
      2, 3, 1, 200, 100, 7, 9, 0, 0, 0, 0>>

\* What the device does with a request it received in full: its response
\* and its flash afterwards.  devOk = FALSE is the device failing the
\* command (a wrong key answer, a flash error).
Device(req, fl, devOk) ==
    LET opcode == req[1]
        bad == DevHeader(opcode, 255)
    IN  CASE opcode = OP_DETECT ->
               [response |-> DevHeader(opcode, IF devOk THEN CHIP_CH559 ELSE 82),
                flash |-> fl]
          [] opcode = OP_IDENTIFY ->
               [response |-> IdentifyResponse, flash |-> fl]
          [] opcode = OP_RESET_KEY ->
               [response |-> DevHeader(opcode, IF devOk THEN CHIP_CH559 ELSE 0),
                flash |-> fl]
          [] opcode = OP_ERASE ->
               IF devOk
               THEN [response |-> DevHeader(opcode, 0),
                     flash |-> EraseCells(fl, 0, req[4] * 1024 - 1)]
               ELSE [response |-> bad, flash |-> fl]
          [] opcode = OP_ERASE_DATA ->
               IF devOk
               THEN [response |-> DevHeader(opcode, 0),
                     flash |-> EraseCells(fl, DATA_FLASH_ADDR,
                                          DATA_FLASH_ADDR + DATA_SIZE - 1)]
               ELSE [response |-> bad, flash |-> fl]
          [] opcode = OP_READ ->
               IF devOk
               THEN [response |-> DevHeader(opcode, 0) \o
                        FlashRange(fl, DATA_FLASH_ADDR + DevAddress(req), req[8]),
                     flash |-> fl]
               ELSE [response |-> bad \o Zeros(req[8]), flash |-> fl]
          [] opcode = OP_WRITE_DATA ->
               IF devOk
               THEN [response |-> DevHeader(opcode, 0),
                     flash |-> Program(fl, DATA_FLASH_ADDR + DevAddress(req),
                                       DevDecode(req))]
               ELSE [response |-> bad, flash |-> fl]
          [] opcode = OP_WRITE_CODE ->
               IF devOk
               THEN [response |-> DevHeader(opcode, 0),
                     flash |-> Program(fl, DevAddress(req), DevDecode(req))]
               ELSE [response |-> bad, flash |-> fl]
          [] opcode = OP_VERIFY ->
               [response |->
                    DevHeader(opcode,
                        IF devOk /\ DevDecode(req) =
                                    FlashRange(fl, DevAddress(req), req[8])
                        THEN 0 ELSE 255),
                flash |-> fl]
          [] OTHER -> [response |-> bad, flash |-> fl]

(***************************************************************************)
(* Transport.  An outcome of one exchange: how the bulk OUT transfer ended *)
(* (w), how the bulk IN transfer ended (r) and how many bytes it read (n). *)
(***************************************************************************)
\* Lengths a bulk IN transfer may stop at before the buffer is full.
ShortLens == {0, 5}

GoodOutcome(explen) == [w |-> "ok", r |-> "ok", n |-> explen]

FaultOutcomes(explen) ==
    { [w |-> "err", r |-> "ok", n |-> 0],
      [w |-> "short", r |-> "ok", n |-> 0],
      [w |-> "ok", r |-> "err", n |-> 0] } \cup
    { [w |-> "ok", r |-> "ok", n |-> k] : k \in {x \in ShortLens : x < explen} }

Outcomes(explen) == {GoodOutcome(explen)} \cup FaultOutcomes(explen)

\* The device acts on a request only when it received all of it.
Delivered(o) == o.w = "ok"

\* The response buffer after read_bulk: the first n bytes are the device's,
\* the rest keep their initial zero.
Received(dev, n, explen) ==
    AsSeq([i \in 1..explen |-> IF i <= n THEN dev[i] ELSE 0])

\* Ch559::send_receive: "ok" or the error, and the response buffer.
send_receive(h, explen, o, dev) ==
    IF ~h THEN [err |-> "invalid handle", response |-> Zeros(explen)]
    ELSE IF o.w = "err"
         THEN [err |-> "failed to do a bulk write", response |-> Zeros(explen)]
    ELSE IF o.w = "short"
         THEN [err |-> "failed to do a bulk write all data",
               response |-> Zeros(explen)]
    ELSE IF o.r = "err"
         THEN [err |-> "failed to do a bulk read response",
               response |-> Zeros(explen)]
    ELSE [err |-> "ok", response |-> Received(dev, o.n, explen)]

(***************************************************************************)
(* Requests.                                                               *)
(***************************************************************************)
detect_request ==
    <<161, 18, 0, 89, 17, 77, 67, 85, 32, 73, 83, 80, 32, 38,
      32, 87, 67, 72, 46, 67, 78>>

identify_request == <<167, 2, 0, 31, 0>>

reset_key_request(sum) ==
    <<OP_RESET_KEY, KEY_LEN, 0>> \o [i \in 1..KEY_LEN |-> sum]

erase_request == <<OP_ERASE, 1, 0, ERASE_SIZE>>

erase_data_request == <<OP_ERASE_DATA, 0, 0, 0>>

\* Request of read_data_in_range(addr, buffer) with buffer.len() = size.
read_request(addr, size) ==
    <<OP_READ, 0, 0, AsU8(addr), AsU8(addr \div 256), 0, 0, AsU8(size)>>

\* An address that is moved into the data flash for every access to the
\* data region, writes included.
write_verify_address_moved(addr, write, data_region) ==
    IF data_region THEN AsU16(addr + DATA_FLASH_ADDR) ELSE addr

\* The address write_verify_in_range puts into its request.
write_verify_address(addr, write, data_region) ==
    IF data_region /\ ~write THEN AsU16(addr + DATA_FLASH_ADDR) ELSE addr

\* The opcode write_verify_in_range puts into its request.
write_verify_opcode(write, data_region) ==
    IF write
    THEN (IF data_region THEN OP_WRITE_DATA ELSE OP_WRITE_CODE)
    ELSE OP_VERIFY

\* A payload whose XOR with the chip id falls on the first byte of each
\* block of 8.
write_verify_payload_first(i, data, fullfill, chip, r) ==
    LET value == IF i < Len(data) THEN data[i + 1]
                 ELSE IF fullfill THEN RandByte(r, i) ELSE FILLER
    IN  IF 0 = i % 8 THEN Xor(value, chip) ELSE value

\* Payload byte i (from 0) of a write/verify request: the data, then the
\* alignment fill (random under fullfill, drawn from stream r), the last
\* byte of each block of 8 XORed with the chip id.
write_verify_payload(i, data, fullfill, chip, r) ==
    LET value == IF i < Len(data) THEN data[i + 1]
                 ELSE IF fullfill THEN RandByte(r, i) ELSE FILLER
    IN  IF 7 = i % 8 THEN Xor(value, chip) ELSE value

\* The eight bytes write_verify_in_range pushes before the payload of n
\* data bytes.
write_verify_header(addr, n, write, data_region) ==
    LET length == AlignUp8(n)
        address == write_verify_address(addr, write, data_region)
    IN  << write_verify_opcode(write, data_region),
           AsU8(length + 5), 0,
           AsU8(address), AsU8(address \div 256), 0, 0,
           AsU8(length) >>

\* The request write_verify_in_range(addr, data, write, data_region,
\* fullfill) sends.
write_verify_request(addr, data, write, data_region, fullfill, chip, r) ==
    write_verify_header(addr, Len(data), write, data_region) \o
        [i \in 1..AlignUp8(Len(data)) |->
            write_verify_payload(i - 1, data, fullfill, chip, r)]

(***************************************************************************)
(* State.                                                                  *)
(***************************************************************************)
VARIABLES
    handle,        \* Ch559.handle is Some(_)
    ep_in,         \* Ch559.ep_in
    ep_out,        \* Ch559.ep_out
    chip_id,       \* Ch559.chip_id
    version,       \* Ch559.version
    sum,           \* Ch559.sum
    key_is_reset,  \* Ch559.key_is_reset
    seed,          \* the seed handed to set_seed, NoSeed before
    flash,         \* the device's flash
    pc,            \* "new", "idle", or the place of the running operation
    op,            \* the operation called last and its arguments
    length,        \* write(): the target length
    offset,        \* read_data(), write(): the loop variable
    result,        \* what the last operation returned, "none" while it runs
    sink,          \* read_data(): the contents of the file it created
    request,       \* the last request the running operation handed to write_bulk
    log,           \* the commands of the running (or last) operation
    last,          \* the last exchange: bytes expected, bytes read, outcome
    pad,           \* the random bytes the running (or last) write() drew
    prev,          \* the operation before, if it was a write that succeeded
    resetOk,       \* the device answered a reset-key exchange with the chip id
    nResetKey,     \* reset-key exchanges started on this session
    nOps,          \* operations called on this session
    nFaults,       \* misbehaviours of the environment so far
    usb,           \* what initialize met on the bus: the layout, whether it
                   \* found the endpoints, whether it claimed the interface
    run            \* main(): its arguments, the option it is at, its exit code

\* What no flash operation changes: the session's identity, what was met
\* on the bus, and where main() stands.
session == <<handle, ep_in, ep_out, chip_id, version, sum, usb, run>>

vars == <<handle, ep_in, ep_out, chip_id, version, sum, key_is_reset, seed,
          flash, pc, op, length, offset, result, sink, request, log, last, pad,
          prev, resetOk, nResetKey, nOps, nFaults, usb, run>>

NoSeed == 0

NoFile == [name |-> "", exists |-> FALSE, regular |-> FALSE, len |-> 0,
           salt |-> 0, content |-> <<>>]

NoOp == [kind |-> "none", file |-> NoFile, write |-> FALSE,
         data_region |-> FALSE, fullfill |-> FALSE]

NoPrev == [valid |-> FALSE, file |-> NoFile, data_region |-> FALSE,
           fullfill |-> FALSE, seed |-> NoSeed, pad |-> <<>>,
           result |-> "none"]

\* One line of the log: the opcode sent, the chunk's offset and size, and
\* what the command came to ("ok" or the error returned for it).
Entry(req, addr, size, err) ==
    [opcode |-> req[1], addr |-> addr, size |-> size, err |-> err]

\* The transfer of one exchange: the opcode sent, how many bytes
\* send_receive asked for, how many the bulk IN transfer read, what
\* send_receive returned, and the status byte the device put at offset 4 of
\* its response (0 if the request never reached it).
Transfer(req, explen, o, sr, status) ==
    [opcode |-> req[1], explen |-> explen, err |-> sr.err,
     received |-> IF Delivered(o) /\ o.r = "ok" THEN o.n ELSE 0,
     status |-> IF Delivered(o) THEN status ELSE 0]

NoTransfer ==
    [opcode |-> 0, explen |-> 0, err |-> "none", received |-> 0, status |-> 0]

\* What is left of the run's budget of events.
Budget == MaxEvents - (nOps + nFaults)

\* Faults an exchange spends: a transfer that fails or comes short, a device
\* that fails the command.
FaultsOf(explen, o, devOk) ==
    (IF o = GoodOutcome(explen) THEN 0 ELSE 1) + (IF devOk THEN 0 ELSE 1)

\* The environment of one exchange: the outcome of the two transfers and
\* whether the device carries the command out; a request that does not
\* reach the device leaves it nothing to fail.
Env(explen) ==
    { e \in [o : Outcomes(explen), devOk : BOOLEAN] :
        /\ (~Delivered(e.o) => e.devOk)
        /\ FaultsOf(explen, e.o, e.devOk) <= Budget }

(***************************************************************************)
(* Ch559::new and Ch559::initialize.                                       *)
(***************************************************************************)
\* Descriptor layouts of the device found: whether configuration 0 can be
\* read, whether it has an interface, whether that has an alternate
\* setting, and the setting's endpoint descriptors in order.
Layouts ==
    { [config |-> TRUE, interface |-> TRUE, desc |-> TRUE,
       eps |-> << [dir |-> "In", type |-> "Bulk", address |-> 130],
                  [dir |-> "Out", type |-> "Bulk", address |-> 2] >>],
      [config |-> FALSE, interface |-> FALSE, desc |-> FALSE, eps |-> <<>>],
      [config |-> TRUE, interface |-> FALSE, desc |-> FALSE, eps |-> <<>>],
      [config |-> TRUE, interface |-> TRUE, desc |-> FALSE, eps |-> <<>>],
      [config |-> TRUE, interface |-> TRUE, desc |-> TRUE, eps |-> <<>>],
      [config |-> TRUE, interface |-> TRUE, desc |-> TRUE,
       eps |-> << [dir |-> "In", type |-> "Bulk", address |-> 130] >>],
      [config |-> TRUE, interface |-> TRUE, desc |-> TRUE,
       eps |-> << [dir |-> "In", type |-> "Interrupt", address |-> 129],
                  [dir |-> "Out", type |-> "Bulk", address |-> 2] >>] }

NoEndpoints ==
    [ep_in |-> 0, ep_in_found |-> FALSE, ep_in_type |-> "Bulk",
     ep_out |-> 0, ep_out_found |-> FALSE, ep_out_type |-> "Bulk"]

RECURSIVE ScanEndpoints(_, _)
\* The loop over desc.endpoint_descriptors(): each endpoint overwrites what
\* was recorded for its direction.
ScanEndpoints(eps, acc) ==
    IF eps = <<>> THEN acc
    ELSE LET ep == Head(eps)
         IN  ScanEndpoints(Tail(eps),
                IF ep.dir = "In"
                THEN [acc EXCEPT !.ep_in = ep.address,
                                 !.ep_in_type = ep.type,
                                 !.ep_in_found = TRUE]
                ELSE [acc EXCEPT !.ep_out = ep.address,
                                 !.ep_out_type = ep.type,
                                 !.ep_out_found = TRUE])

EndpointsOk(sc) ==
    ~(\/ ~sc.ep_in_found
      \/ ~sc.ep_out_found
      \/ sc.ep_in_type /= "Bulk"
      \/ sc.ep_out_type /= "Bulk")

\* format!("{}.{}{}", r[19], r[20], r[21])
FormatVersion(r) ==
    ByteToString(r[20]) \o "." \o ByteToString(r[21]) \o ByteToString(r[22])

\* Ch559::initialize on an opened device: the error ("ok" if none), the
\* fields it leaves in the object and the exchanges it made.
initialize(layout, activateOk, claimOk, e1, e2) ==
    LET sc == IF layout.config /\ layout.interface /\ layout.desc
              THEN ScanEndpoints(layout.eps, NoEndpoints)
              ELSE NoEndpoints
        d1 == Device(detect_request, EmptyFlash, e1.devOk).response
        sr1 == send_receive(TRUE, 6, e1.o, d1)
        err1 == IF sr1.err /= "ok" THEN sr1.err \o " on detect"
                ELSE IF sr1.response[5] /= CHIP_CH559
                THEN "failed to receive a valid response on detect"
                ELSE "ok"
        l1 == <<Entry(detect_request, 0, 0, err1)>>
        t1 == Transfer(detect_request, 6, e1.o, sr1, d1[5])
        d2 == Device(identify_request, EmptyFlash, e2.devOk).response
        sr2 == send_receive(TRUE, 30, e2.o, d2)
        err2 == IF sr2.err /= "ok" THEN sr2.err \o " on detect" ELSE "ok"
        l2 == l1 \o <<Entry(identify_request, 0, 0, err2)>>
        t2 == Transfer(identify_request, 30, e2.o, sr2, d2[5])
        base == [err |-> "ok", ep_in |-> sc.ep_in, ep_out |-> sc.ep_out,
                 chip_id |-> 0, version |-> "unknown", sum |-> 0,
                 log |-> <<>>, request |-> <<>>, last |-> NoTransfer,
                 found |-> EndpointsOk(sc)]
    IN  IF ~layout.config
        THEN [base EXCEPT !.err = "failed to check configurations"]
        ELSE IF ~layout.interface
        THEN [base EXCEPT !.err = "failed to check interfaces"]
        ELSE IF layout.desc /\ ~EndpointsOk(sc)
        THEN [base EXCEPT !.err = "failed to detect EPs"]
        ELSE IF ~activateOk
        THEN [base EXCEPT
                !.err = "failed to activate the target configuration"]
        ELSE IF ~claimOk
        THEN [base EXCEPT !.err = "failed to claim the target interface"]
        ELSE IF sr1.err /= "ok"
        THEN [base EXCEPT !.err = err1, !.log = l1, !.last = t1,
                          !.request = detect_request]
        ELSE IF sr1.response[5] /= CHIP_CH559
        THEN [base EXCEPT !.err = err1, !.log = l1, !.last = t1,
                          !.request = detect_request]
        ELSE IF sr2.err /= "ok"
        THEN [base EXCEPT !.err = err2, !.log = l2, !.last = t2,
                          !.chip_id = sr1.response[5],
                          !.request = identify_request]
        ELSE [base EXCEPT
                !.chip_id = sr1.response[5],
                !.version = FormatVersion(sr2.response),
                !.sum = wrapping_add(wrapping_add(wrapping_add(
                            sr2.response[23], sr2.response[24]),
                            sr2.response[25]), sr2.response[26]),
                !.log = l2, !.last = t2, !.request = identify_request]

\* No main() is running.
NoRun ==
    [step |-> "none", on |-> FALSE, base |-> 0, checked |-> 0,
     exit |-> "none", file |-> NoFile, named |-> FALSE, fullfill |-> FALSE,
     erased |-> {}]

\* Nothing met on the bus yet.
NoUsb ==
    [layout |-> [config |-> FALSE, interface |-> FALSE, desc |-> FALSE,
                 eps |-> <<>>],
     found |-> FALSE, claimed |-> FALSE]

\* The interface is claimed once activation and claim_interface succeeded,
\* which is when initialize goes on to the detect exchange.
Claimed(init) ==
    init.err \notin {"failed to check configurations",
                     "failed to check interfaces",
                     "failed to detect EPs",
                     "failed to activate the target configuration",
                     "failed to claim the target interface"}

\* A bulk transfer to an endpoint address that was never discovered (0, the
\* control endpoint) is refused by the host's USB stack.
Refused == [o |-> [w |-> "err", r |-> "ok", n |-> 0], devOk |-> TRUE]

\* The session before Ch559::new.
InitSession ==
    /\ handle = FALSE
    /\ ep_in = 0
    /\ ep_out = 0
    /\ chip_id = 0
    /\ version = "unknown"
    /\ sum = 0
    /\ key_is_reset = FALSE
    /\ seed = NoSeed
    /\ flash = EmptyFlash
    /\ usb = NoUsb
    /\ pc = "new"
    /\ op = NoOp
    /\ length = 0
    /\ offset = 0
    /\ result = "none"
    /\ sink = <<>>
    /\ request = <<>>
    /\ log = <<>>
    /\ last = NoTransfer
    /\ pad = <<>>
    /\ prev = NoPrev
    /\ resetOk = FALSE
    /\ nResetKey = 0
    /\ nOps = 0
    /\ nFaults = 0

\* The session driven by any caller: main() is not running.
Init ==
    /\ InitSession
    /\ run = NoRun

\* Ch559::new on a bus where the device, if present, has one of the given
\* layouts: open the device and, if there is one, initialize it; a failed
\* initialization discards the handle.
Open(layouts) ==
    /\ pc = "new"
    /\ \E present \in BOOLEAN, layout \in layouts,
          activateOk \in BOOLEAN, claimOk \in BOOLEAN,
          e1 \in Env(6), e2 \in Env(30) :
        LET faults == FaultsOf(6, e1.o, e1.devOk) + FaultsOf(30, e2.o, e2.devOk)
            init == initialize(layout, activateOk, claimOk, e1, e2)
        IN  /\ faults <= Budget
            /\ (~init.found => e1 = Refused)
            /\ IF present
               THEN /\ handle' = (init.err = "ok")
                    /\ usb' = [layout |-> layout, found |-> init.found,
                               claimed |-> Claimed(init)]
                    /\ ep_in' = init.ep_in
                    /\ ep_out' = init.ep_out
                    /\ chip_id' = init.chip_id
                    /\ version' = init.version
                    /\ sum' = init.sum
                    /\ log' = init.log
                    /\ last' = init.last
                    /\ request' = init.request
                    /\ result' = init.err
                    /\ nFaults' = IF Len(init.log) = 2 THEN faults
                                  ELSE IF Len(init.log) = 1
                                  THEN FaultsOf(6, e1.o, e1.devOk)
                                  ELSE 0
               ELSE /\ handle' = FALSE
                    /\ UNCHANGED <<ep_in, ep_out, chip_id, version, sum, log,
                                   last, request, nFaults, usb>>
                    /\ result' = "no device"
    /\ pc' = "idle"
    /\ UNCHANGED <<key_is_reset, seed, flash, op, length, offset, sink, pad,
                   prev, resetOk, nResetKey, nOps, run>>

New == Open(Layouts)

\* Endpoint descriptors a setting may list, and every setting of up to
\* MaxEps of them in any order.
EndpointDescs ==
    { [dir |-> "In", type |-> "Bulk", address |-> 129],
      [dir |-> "In", type |-> "Bulk", address |-> 130],
      [dir |-> "In", type |-> "Interrupt", address |-> 131],
      [dir |-> "Out", type |-> "Bulk", address |-> 1],
      [dir |-> "Out", type |-> "Bulk", address |-> 2],
      [dir |-> "Out", type |-> "Interrupt", address |-> 3] }

Settings == UNION { [1..n -> EndpointDescs] : n \in 0..MaxEps }

AnyLayouts ==
    { [config |-> TRUE, interface |-> TRUE, desc |-> TRUE, eps |-> AsSeq(eps)] :
        eps \in Settings }

\* Ch559::new on a device with any setting.
NewAny == Open(AnyLayouts)

\* Construction alone, over every setting.
SpecNew == Init /\ [][NewAny]_vars

(***************************************************************************)
(* One exchange with the device, and the entry of every flash operation.   *)
(***************************************************************************)
\* send_receive against the device: what it returns, and the device's flash
\* afterwards (the device acts even if its response is then lost).
Exchange(req, explen, e) ==
    LET dev == IF Delivered(e.o)
               THEN Device(req, flash, e.devOk)
               ELSE [response |-> Zeros(explen), flash |-> flash]
    IN  [sr |-> send_receive(handle, explen, e.o, dev.response),
         flash |-> dev.flash,
         status |-> dev.response[5],
         answered |-> Delivered(e.o) /\ e.o.r = "ok" /\ e.o.n >= 5
                      /\ dev.response[5] = CHIP_CH559]

\* A reset_key that sends its exchange whether or not the key is reset.
reset_key_entry_eager(h, k) ==
    IF ~h THEN "invalid handle" ELSE "exchange"

\* A reset_key that does not look at the handle.
reset_key_entry_unguarded(h, k) ==
    IF k THEN "done" ELSE "exchange"

\* The head of reset_key: no handle is an error, a key already reset
\* needs nothing, otherwise the exchange follows.
reset_key_entry(h, k) ==
    IF ~h THEN "invalid handle"
    ELSE IF k THEN "done"
    ELSE "exchange"

\* A reset_key that does not compare the response with the chip id.
reset_key_result_unchecked(sr, chip) ==
    IF sr.err /= "ok" THEN sr.err ELSE "ok"

\* What reset_key returns after its exchange.
reset_key_result(sr, chip) ==
    IF sr.err /= "ok" THEN sr.err
    ELSE IF sr.response[5] /= chip THEN "failed to reset key"
    ELSE "ok"

\* A reset_key that sets key_is_reset whatever its exchange came to.
key_after_any(k, err) == TRUE

\* key_is_reset after reset_key's exchange: set once the response matched.
key_after(k, err) == k \/ err = "ok"

\* What the previous operation leaves for the next one to be compared to:
\* a write that succeeded leaves its arguments and its padding, a reset_key
\* that met a mismatch leaves its error.
Summary ==
    IF op.kind = "write" /\ op.write /\ result = "ok"
    THEN [valid |-> TRUE, file |-> op.file, data_region |-> op.data_region,
          fullfill |-> op.fullfill, seed |-> seed, pad |-> pad,
          result |-> "ok"]
    ELSE IF result = "failed to reset key"
    THEN [NoPrev EXCEPT !.result = result]
    ELSE NoPrev

\* A call of operation o: the locals start afresh.
Begin(o) ==
    /\ pc = "idle"
    /\ Budget > 0
    /\ nOps' = nOps + 1
    /\ op' = o
    /\ prev' = Summary
    /\ log' = <<>>
    /\ last' = NoTransfer
    /\ pad' = <<>>
    /\ sink' = <<>>
    /\ request' = <<>>
    /\ offset' = 0

\* Where an operation stands once reset_key has returned Ok: a write of
\* nothing is over, anything else is at its first command.
Enter(o, len) ==
    IF o.kind = "write" /\ len = 0
    THEN [pc |-> "idle", result |-> "ok"]
    ELSE [pc |-> o.kind, result |-> "none"]

\* Where an operation stands after the head of reset_key.
Stage(o, len) ==
    LET entry == reset_key_entry(handle, key_is_reset)
    IN  IF entry = "invalid handle"
        THEN [pc |-> "idle", result |-> "invalid handle"]
        ELSE IF entry = "exchange"
        THEN [pc |-> "reset_key", result |-> "none"]
        ELSE Enter(o, len)

\* reset_key's exchange, on behalf of the running operation.
ResetKeyExchange ==
    /\ pc = "reset_key"
    /\ \E e \in Env(6) :
        LET req == reset_key_request(sum)
            x == Exchange(req, 6, e)
            err == reset_key_result(x.sr, chip_id)
            next == Enter(op, length)
        IN  /\ request' = req
            /\ log' = Append(log, Entry(req, 0, 0, err))
            /\ last' = Transfer(req, 6, e.o, x.sr, x.status)
            /\ flash' = x.flash
            /\ nFaults' = nFaults + FaultsOf(6, e.o, e.devOk)
            /\ nResetKey' = nResetKey + 1
            /\ resetOk' = (resetOk \/ x.answered)
            /\ key_is_reset' = key_after(key_is_reset, err)
            /\ pc' = IF err = "ok" THEN next.pc ELSE "idle"
            /\ result' = IF err = "ok" THEN next.result ELSE err
    /\ UNCHANGED <<session, seed, op, length, offset, sink, pad, prev, nOps>>

(***************************************************************************)
(* erase and erase_data.                                                   *)
(***************************************************************************)
\* What erase and erase_data return after their exchange.
erase_result(sr) ==
    IF sr.err /= "ok" THEN sr.err
    ELSE IF 0 /= sr.response[5] THEN "failed to erase"
    ELSE "ok"

\* An erase that forgets the key was reset.
EraseForgettingKey ==
    /\ Begin([NoOp EXCEPT !.kind = "erase"])
    /\ LET st == Stage([NoOp EXCEPT !.kind = "erase"], 0)
       IN  pc' = st.pc /\ result' = st.result
    /\ length' = 0
    /\ key_is_reset' = FALSE
    /\ UNCHANGED <<session, seed, flash, resetOk, nResetKey, nFaults>>

Erase ==
    /\ Begin([NoOp EXCEPT !.kind = "erase"])
    /\ LET st == Stage([NoOp EXCEPT !.kind = "erase"], 0)
       IN  pc' = st.pc /\ result' = st.result
    /\ length' = 0
    /\ UNCHANGED <<session, key_is_reset, seed, flash, resetOk,
                   nResetKey, nFaults>>

EraseData ==
    /\ Begin([NoOp EXCEPT !.kind = "erase_data"])
    /\ LET st == Stage([NoOp EXCEPT !.kind = "erase_data"], 0)
       IN  pc' = st.pc /\ result' = st.result
    /\ length' = 0
    /\ UNCHANGED <<session, key_is_reset, seed, flash, resetOk,
                   nResetKey, nFaults>>

\* The one command of erase (pc = "erase") or erase_data.
EraseCommand(at, req) ==
    /\ pc = at
    /\ \E e \in Env(6) :
        LET x == Exchange(req, 6, e)
        IN  /\ request' = req
            /\ log' = Append(log, Entry(req, 0, 0, erase_result(x.sr)))
            /\ last' = Transfer(req, 6, e.o, x.sr, x.status)
            /\ flash' = x.flash
            /\ nFaults' = nFaults + FaultsOf(6, e.o, e.devOk)
            /\ result' = erase_result(x.sr)
    /\ pc' = "idle"
    /\ UNCHANGED <<session, key_is_reset, seed, op, length, offset, sink, pad,
                   prev, resetOk, nResetKey, nOps>>

EraseExchange == EraseCommand("erase", erase_request)

EraseDataExchange == EraseCommand("erase_data", erase_data_request)

(***************************************************************************)
(* The chunk loops.                                                        *)
(***************************************************************************)
\* A chunk loop that takes every chunk whole, the last one too.
chunk_size_whole(remaining_size) == CHUNK

\* The size of the chunk at the head of the remaining bytes.
chunk_size(remaining_size) ==
    IF remaining_size > CHUNK THEN CHUNK ELSE remaining_size

\* The loop `for offset in (0..length).step_by(0x38)`: whether another
\* iteration follows the one at offset.
loop_continues(off, len) == off + CHUNK < len

(***************************************************************************)
(* read_data.                                                              *)
(***************************************************************************)
\* What read_data_in_range returns after its exchange.
read_result(sr) ==
    IF sr.err /= "ok" THEN sr.err
    ELSE IF 0 /= sr.response[5] THEN "failed to read"
    ELSE "ok"

\* A copy that starts one byte early, inside the response header.
read_payload_shifted(response, size) ==
    AsSeq([i \in 1..size |-> response[i + 5]])

\* The bytes read_data_in_range copies into its buffer.
read_payload(response, size) == AsSeq([i \in 1..size |-> response[i + 6]])

\* read_data up to reset_key's exchange: the file is created first.
ReadData ==
    /\ Begin([NoOp EXCEPT !.kind = "read_data"])
    /\ \E createOk \in BOOLEAN :
        LET st == IF createOk
                  THEN Stage([NoOp EXCEPT !.kind = "read_data"], 0)
                  ELSE [pc |-> "idle", result |-> "cannot create the file"]
        IN  pc' = st.pc /\ result' = st.result
    /\ length' = 0
    /\ UNCHANGED <<session, key_is_reset, seed, flash, resetOk,
                   nResetKey, nFaults>>

\* One iteration of read_data's loop.
ReadChunk ==
    /\ pc = "read_data"
    /\ LET size == chunk_size(DATA_SIZE - offset)
           req == read_request(AsU16(offset), size)
       IN  IF size > CHUNK
           THEN /\ result' = "read size is too large"
                /\ pc' = "idle"
                /\ UNCHANGED <<flash, request, log, last, sink, offset,
                               nFaults>>
           ELSE \E e \in Env(size + 6), sinkOk \in BOOLEAN :
                LET x == Exchange(req, size + 6, e)
                    err == read_result(x.sr)
                    faults == FaultsOf(size + 6, e.o, e.devOk)
                              + (IF sinkOk THEN 0 ELSE 1)
                IN  /\ faults <= Budget
                    /\ (~sinkOk => err = "ok")
                    /\ request' = req
                    /\ log' = Append(log, Entry(req, offset, size, err))
                    /\ last' = Transfer(req, size + 6, e.o, x.sr, x.status)
                    /\ flash' = x.flash
                    /\ nFaults' = nFaults + faults
                    /\ sink' = IF err = "ok" /\ sinkOk
                               THEN sink \o read_payload(x.sr.response, size)
                               ELSE sink
                    /\ offset' = IF err = "ok" /\ sinkOk
                                 THEN offset + CHUNK ELSE offset
                    /\ result' = IF err /= "ok" THEN err
                                 ELSE IF ~sinkOk THEN "cannot write the file"
                                 ELSE IF loop_continues(offset, DATA_SIZE)
                                 THEN "none" ELSE "ok"
                    /\ pc' = IF err = "ok" /\ sinkOk
                                /\ loop_continues(offset, DATA_SIZE)
                             THEN "read_data" ELSE "idle"
    /\ UNCHANGED <<session, key_is_reset, seed, op, length, pad, prev, resetOk,
                   nResetKey, nOps>>

(***************************************************************************)
(* write: programming (write = TRUE) and verifying (write = FALSE).        *)
(***************************************************************************)
\* A write() that accepts any source file.
write_check_none(file, data_region, fullfill) == "ok"

\* The checks of write() on the metadata of its source file.
write_check(file, data_region, fullfill) ==
    IF ~file.regular THEN "not a regular file"
    ELSE IF data_region
    THEN (IF ~fullfill /\ DATA_SIZE /= file.len
          THEN "file size should be 0x400"
          ELSE IF file.len > DATA_SIZE
          THEN "file size is too large for data"
          ELSE "ok")
    ELSE (IF file.len > CODE_LIMIT
          THEN "file size is too large for code"
          ELSE "ok")

\* A target length that takes the ceiling of the code region whenever the
\* file runs over the data region.
target_length_ceiling(file_length, data_region, fullfill) ==
    IF data_region THEN (IF fullfill THEN DATA_SIZE ELSE file_length)
    ELSE IF file_length > CODE_FILL THEN CODE_LIMIT
    ELSE IF fullfill THEN CODE_FILL
    ELSE file_length

\* The target length of write().
target_length(file_length, data_region, fullfill) ==
    IF fullfill
    THEN (IF data_region THEN DATA_SIZE
          ELSE IF file_length > CODE_FILL THEN CODE_LIMIT
          ELSE CODE_FILL)
    ELSE file_length

\* A read_size that takes nothing from the file.
read_size_none(off, size, file_length) == 0

\* How many bytes of the chunk at offset come from the file.
read_size(off, size, file_length) ==
    IF off > file_length THEN 0
    ELSE IF off + size > file_length THEN file_length - off
    ELSE size

\* The chunk handed to write_verify_in_range: rs bytes of the file from
\* its cursor, which stands at off (every chunk before was read in full),
\* then random bytes, drawn from stream r.
chunk_data(file, off, size, rs, r) ==
    AsSeq([i \in 1..size |-> IF i <= rs THEN FileByte(file, off + i - 1)
                                        ELSE RandByte(r, i - 1)])

\* A write_verify_in_range that does not look at the status byte.
write_verify_result_blind(sr, write) == sr.err

\* What write_verify_in_range returns after its exchange.
write_verify_result(sr, write) ==
    IF sr.err /= "ok" THEN sr.err
    ELSE IF 0 /= sr.response[5]
    THEN (IF write THEN "failed to flash" ELSE "failed to verify")
    ELSE "ok"

\* The operations the model calls write() with.
WriteOps ==
    { [kind |-> "write", file |-> f, write |-> w, data_region |-> d,
       fullfill |-> ff] :
        f \in Files, w \in BOOLEAN, d \in BOOLEAN, ff \in BOOLEAN }

\* The model follows the chunk loop of an accepted write only within the
\* bounds MaxCode and MaxPad.
InBounds(o) ==
    LET len == target_length(o.file.len, o.data_region, o.fullfill)
    IN  o.file.exists /\ write_check(o.file, o.data_region, o.fullfill) = "ok" =>
            /\ (~o.data_region => len <= MaxCode)
            /\ (o.fullfill => len - o.file.len <= MaxPad)

\* write() up to reset_key's exchange: the file is opened and checked, the
\* target length follows from its size.
WriteCall(o) ==
    LET check == write_check(o.file, o.data_region, o.fullfill)
        len == IF o.file.exists /\ check = "ok"
               THEN target_length(o.file.len, o.data_region, o.fullfill)
               ELSE 0
        st == IF ~o.file.exists
              THEN [pc |-> "idle", result |-> "cannot open the file"]
              ELSE IF check /= "ok"
              THEN [pc |-> "idle", result |-> check]
              ELSE Stage(o, len)
    IN  /\ Begin(o)
        /\ length' = len
        /\ pc' = st.pc
        /\ result' = st.result
        /\ UNCHANGED <<session, key_is_reset, seed, flash, resetOk,
                       nResetKey, nFaults>>

Write ==
    /\ pc = "idle"
    /\ \E o \in WriteOps : InBounds(o) /\ WriteCall(o)

\* Source files of every size around the limits write() tests.
AnyLengths ==
    {0, 1, CHUNK - 1, CHUNK, CHUNK + 1, DATA_SIZE - 1, DATA_SIZE,
     DATA_SIZE + 1, CODE_FILL - 1, CODE_FILL, CODE_FILL + 1,
     CODE_FILL + 256, CODE_LIMIT - 1, CODE_LIMIT, CODE_LIMIT + 1}

AnyFiles ==
    { [name |-> "any.bin", exists |-> TRUE, regular |-> reg, len |-> n,
       salt |-> 1, content |-> <<>>] : reg \in BOOLEAN, n \in AnyLengths }

AnyWriteOps ==
    { [kind |-> "write", file |-> f, write |-> w, data_region |-> d,
       fullfill |-> ff] :
        f \in AnyFiles, w \in BOOLEAN, d \in BOOLEAN, ff \in BOOLEAN }

\* write() as the first operation of the session, on a file of any size,
\* up to reset_key's exchange.
WriteAny ==
    /\ pc = "idle"
    /\ nOps = 0
    /\ \E o \in AnyWriteOps : WriteCall(o)

\* One iteration of write()'s loop.
WriteChunk ==
    /\ pc = "write"
    /\ LET size == chunk_size(length - offset)
           rs == read_size(offset, size, op.file.len)
           drawn == (rs /= size) \/ (op.fullfill /\ size % 8 /= 0)
       IN  \/ \* file.read returns fewer bytes than the metadata promised
              /\ rs /= 0
              /\ Budget > 0
              /\ nFaults' = nFaults + 1
              /\ result' = "unexpected EOF"
              /\ pc' = "idle"
              /\ UNCHANGED <<flash, request, log, last, pad, offset>>
           \/ \E r \in (IF drawn THEN RandStreams ELSE {0}) :
              \E data \in {chunk_data(op.file, offset, size, rs, r)} :
                /\ pad' = pad \o SubSeq(data, rs + 1, size)
                /\ IF Len(data) > CHUNK
                   THEN /\ result' = "read size is too large"
                        /\ pc' = "idle"
                        /\ UNCHANGED <<flash, request, log, last, offset,
                                       nFaults>>
                   ELSE \E req \in {write_verify_request(AsU16(offset), data,
                                        op.write, op.data_region, op.fullfill,
                                        chip_id, r)} :
                        \E e \in Env(6) :
                        \E x \in {Exchange(req, 6, e)} :
                          LET err == write_verify_result(x.sr, op.write)
                              more == loop_continues(offset, length)
                          IN  /\ request' = req
                              /\ log' = Append(log,
                                            Entry(req, offset, size, err))
                              /\ last' = Transfer(req, 6, e.o, x.sr, x.status)
                              /\ flash' = x.flash
                              /\ nFaults' = nFaults + FaultsOf(6, e.o, e.devOk)
                              /\ offset' = IF err = "ok" THEN offset + CHUNK
                                           ELSE offset
                              /\ result' = IF err /= "ok" THEN err
                                           ELSE IF more THEN "none" ELSE "ok"
                              /\ pc' = IF err = "ok" /\ more THEN "write"
                                       ELSE "idle"
    /\ UNCHANGED <<session, key_is_reset, seed, op, length, sink, prev,
                   resetOk, nResetKey, nOps>>

(***************************************************************************)
(* set_seed.  main.rs:48 calls it once, right after Ch559::new succeeded;  *)
(* ch559.rs does not define it.  It is taken to store the seed for the     *)
(* random fill generator of the specification; the padding itself is drawn *)
(* by the code of write(), from rand::random.                              *)
(***************************************************************************)
SetSeed ==
    /\ pc = "idle"
    /\ handle
    /\ nOps = 0
    /\ seed = NoSeed
    /\ \E sd \in Seeds : seed' = sd
    /\ UNCHANGED <<session, key_is_reset, flash, pc, op, length, offset, result,
                   sink, request, log, last, pad, prev, resetOk, nResetKey,
                   nOps, nFaults>>

(***************************************************************************)
(* main(): Ch559::new, then the options in the order of the source, each   *)
(* one a sequence of calls whose results main checks one by one.  run.step *)
(* is the option main is at, run.on whether it is given, run.base the      *)
(* number of operations called before it and run.checked the number of its *)
(* calls whose result main has looked at.  The call of set_seed (--seed),  *)
(* which ch559.rs does not define, is followed in SpecFill and not here.   *)
(***************************************************************************)
MainSteps ==
    <<"new", "erase", "write", "compare", "erase_data", "read_data",
      "write_data", "compare_data", "exit">>

StepIndex(step) == CHOOSE i \in 1..Len(MainSteps) : MainSteps[i] = step

\* A main that writes without erasing first.
Calls_unerased(step) ==
    CASE step = "erase" -> <<"erase">>
      [] step = "write" -> <<"write">>
      [] step = "compare" -> <<"write">>
      [] step = "erase_data" -> <<"erase_data">>
      [] step = "read_data" -> <<"read_data">>
      [] step = "write_data" -> <<"write">>
      [] step = "compare_data" -> <<"write">>
      [] OTHER -> <<>>

\* The calls main makes for an option that is given.
Calls(step) ==
    CASE step = "erase" -> <<"erase">>
      [] step = "write" -> <<"erase", "write">>
      [] step = "compare" -> <<"write">>
      [] step = "erase_data" -> <<"erase_data">>
      [] step = "read_data" -> <<"read_data">>
      [] step = "write_data" -> <<"erase_data", "write">>
      [] step = "compare_data" -> <<"write">>
      [] OTHER -> <<>>

\* A main that asks for FILENAME before any call.
NeedsFilename_any(kind) == TRUE

\* The calls that take options.filename.
NeedsFilename(kind) == kind \in {"write", "read_data"}

\* The write() an option calls.
MainWriteOp(step) ==
    [kind |-> "write", file |-> run.file,
     write |-> step \in {"write", "write_data"},
     data_region |-> step \in {"write_data", "compare_data"},
     fullfill |-> run.fullfill]

\* The command lines: FILENAME absent or one of the files, --fullfill or
\* not; the option flags are read as main comes to them.
MainFiles == {f \in Files : f.name \in {"code.bin", "data.bin"}}

MainRuns ==
    { [NoRun EXCEPT !.step = "new", !.file = f, !.named = TRUE,
                    !.fullfill = ff] : f \in MainFiles, ff \in BOOLEAN }
    \cup
    { [NoRun EXCEPT !.step = "new", !.fullfill = ff] : ff \in BOOLEAN }

InitMain ==
    /\ InitSession
    /\ run \in MainRuns

\* main is at an option that is given, every call made so far was checked,
\* and the next call is of the given kind with its FILENAME present.
MainCalls(kind) ==
    /\ run.exit = "none"
    /\ run.on
    /\ pc = "idle"
    /\ nOps - run.base = run.checked
    /\ run.checked < Len(Calls(run.step))
    /\ Calls(run.step)[run.checked + 1] = kind
    /\ NeedsFilename(kind) => run.named

MainErase == MainCalls("erase") /\ Erase

MainEraseData == MainCalls("erase_data") /\ EraseData

\* File::create fails on a directory.
MainReadData ==
    /\ MainCalls("read_data")
    /\ ReadData
    /\ (run.file.exists /\ ~run.file.regular)
          => result' = "cannot create the file"

MainWrite ==
    /\ MainCalls("write")
    /\ InBounds(MainWriteOp(run.step))
    /\ WriteCall(MainWriteOp(run.step))

\* main comes to the option after step; its flag is read then.
Advance(step) ==
    LET next == MainSteps[StepIndex(step) + 1]
    IN  IF next = "exit"
        THEN {[run EXCEPT !.step = "exit", !.on = FALSE, !.exit = "OK"]}
        ELSE {[run EXCEPT !.step = next, !.on = given, !.base = nOps,
                          !.checked = 0] : given \in BOOLEAN}

\* The file FILENAME names once read_data has written it.
Dumped(file, bytes) ==
    [file EXCEPT !.exists = TRUE, !.regular = TRUE, !.len = Len(bytes),
                 !.salt = 0, !.content = bytes]

\* main after a call returned Ok: the erase is remembered, the file
\* read_data wrote has its new contents.
Checked ==
    [run EXCEPT
        !.checked = @ + 1,
        !.erased = IF op.kind \in {"erase", "erase_data"}
                   THEN @ \cup {op.kind} ELSE @,
        !.file = IF op.kind = "read_data" THEN Dumped(@, sink) ELSE @]

\* main between two calls: the match on Ch559::new, the skip of an option
\* that is not given, the check of a call's result, the check of FILENAME,
\* the step to the next option, the exits.
MainStep ==
    /\ run.exit = "none"
    /\ pc = "idle"
    /\ LET calls == Calls(run.step)
           done == nOps - run.base
       IN  IF run.step = "new"
           THEN run' \in (IF handle THEN Advance("new")
                          ELSE {[run EXCEPT !.exit = "USAGE"]})
           ELSE IF ~run.on
           THEN run' \in Advance(run.step)
           ELSE IF done = run.checked + 1
           THEN IF result /= "ok"
                THEN run' = [run EXCEPT !.exit = "IOERR"]
                ELSE IF run.checked + 1 = Len(calls)
                THEN run' \in { [r EXCEPT !.erased = Checked.erased,
                                          !.file = Checked.file] :
                                   r \in Advance(run.step) }
                ELSE run' = Checked
           ELSE /\ done = run.checked
                /\ NeedsFilename(calls[run.checked + 1])
                /\ ~run.named
                /\ run' = [run EXCEPT !.exit = "USAGE"]
    /\ UNCHANGED <<handle, ep_in, ep_out, chip_id, version, sum, usb,
                   key_is_reset, seed, flash, pc, op, length, offset, result,
                   sink, request, log, last, pad, prev, resetOk, nResetKey,
                   nOps, nFaults>>

NextMain ==
    \/ New
    \/ MainStep
    \/ MainErase
    \/ MainEraseData
    \/ MainReadData
    \/ MainWrite
    \/ ResetKeyExchange
    \/ EraseExchange
    \/ EraseDataExchange
    \/ ReadChunk
    \/ WriteChunk

SpecMain == InitMain /\ [][NextMain]_vars

(***************************************************************************)
(* The session: construction, then flash operations in any order.          *)
(***************************************************************************)
Next ==
    \/ New
    \/ Erase
    \/ EraseData
    \/ ReadData
    \/ Write
    \/ ResetKeyExchange
    \/ EraseExchange
    \/ EraseDataExchange
    \/ ReadChunk
    \/ WriteChunk

Spec == Init /\ [][Next]_vars

(***************************************************************************)
(* The session as main.rs drives it with --seed: construction, set_seed,   *)
(* then writes.                                                            *)
(***************************************************************************)
NextFill ==
    \/ New
    \/ SetSeed
    \/ Write
    \/ ResetKeyExchange
    \/ WriteChunk

SpecFill == Init /\ [][NextFill]_vars

(***************************************************************************)
(* One write() on a fresh session, on a source file of any size, followed  *)
(* up to the entry of its chunk loop.                                      *)
(***************************************************************************)
NextWrite ==
    \/ New
    \/ WriteAny
    \/ ResetKeyExchange

SpecWrite == Init /\ [][NextWrite]_vars

(***************************************************************************)
(* Properties.                                                             *)
(***************************************************************************)
IsFlashCommand(e) == e.opcode \in FlashOpcodes

\* The commands of the running (or last) operation after its handshake.
Commands == SelectSeq(log, LAMBDA e : e.opcode /= OP_RESET_KEY)

\* The status byte as the host finds it at offset 4 of its response buffer:
\* the buffer starts as zeros and holds what the bulk IN transfer read.
HostStatus(t) == IF t.received >= 5 THEN t.status ELSE 0

Mismatch == "failed to reset key"

\* C1: whenever a flash command (0xA4, 0xA9, 0xAB, 0xAA, 0xA5, 0xA6) has
\* been sent, the session's key is reset and the device has answered a
\* reset-key exchange with the chip id; within an operation the reset-key
\* exchange comes before every flash command, and an operation whose
\* reset_key failed has sent no flash command.
C1_FlashAfterResetKey ==
    /\ ((\E i \in 1..Len(log) : IsFlashCommand(log[i]))
            \/ last.opcode \in FlashOpcodes
            \/ (request /= <<>> /\ request[1] \in FlashOpcodes))
        => key_is_reset /\ resetOk /\ nResetKey >= 1
    /\ \A i \in 1..Len(log) : log[i].opcode = OP_RESET_KEY => i = 1
    /\ (Len(log) >= 1 /\ log[1].opcode = OP_RESET_KEY /\ log[1].err /= "ok")
        => Len(log) = 1

\* An erase on a fresh session: the handshake, then the erase command.
C1_Witness ==
    /\ pc = "idle" /\ op.kind = "erase" /\ result = "ok"
    /\ Len(log) = 2
    /\ log[1].opcode = OP_RESET_KEY /\ log[1].err = "ok"
    /\ log[2].opcode = OP_ERASE

\* C2 as stated: over any sequence of flash operations on one connection
\* the reset-key exchange (0xA3) is executed at most once.
C2_AtMostOneExchange == nResetKey <= 1

\* C2, amended: once key_is_reset is true it stays true and no operation
\* sends the reset-key exchange again, so the exchange succeeds at most once
\* per connection; it is sent again only while key_is_reset is false.
C2_NoExchangeOnceReset ==
    [][/\ key_is_reset => key_is_reset' /\ nResetKey' = nResetKey
       /\ nResetKey' /= nResetKey =>
            /\ ~key_is_reset
            /\ nResetKey' = nResetKey + 1
            /\ request'[1] = OP_RESET_KEY]_vars

\* A second operation that went to its flash commands with no handshake.
C2_Witness ==
    /\ nOps >= 2 /\ key_is_reset /\ nResetKey = 1
    /\ pc = "idle" /\ result = "ok"
    /\ Len(log) >= 1 /\ IsFlashCommand(log[1])

\* C3: a reset-key response whose byte at offset 4 is not chip_id fails the
\* operation with "failed to reset key", no flash command is sent and
\* key_is_reset stays false; the operation after it, unless it fails before
\* it reaches the device, sends the reset-key exchange again.
C3_MismatchThenRetry ==
    /\ (last.opcode = OP_RESET_KEY /\ last.err = "ok"
            /\ HostStatus(last) /= chip_id)
        => result = Mismatch
    /\ result = Mismatch =>
        /\ pc = "idle"
        /\ ~key_is_reset
        /\ last.opcode = OP_RESET_KEY
        /\ \A i \in 1..Len(log) : ~IsFlashCommand(log[i])
    /\ prev.result = Mismatch =>
        \/ pc = "reset_key"
        \/ pc = "idle" /\ log = <<>>
        \/ Len(log) >= 1 /\ log[1].opcode = OP_RESET_KEY

\* The operation after a mismatch repeated the handshake and went through.
C3_Witness ==
    /\ prev.result = Mismatch
    /\ pc = "idle" /\ result = "ok"
    /\ Len(log) >= 2
    /\ log[1].opcode = OP_RESET_KEY /\ log[1].err = "ok"
    /\ IsFlashCommand(log[2])

\* The image a write leaves: the file, then the padding the write drew.
Image(file, padding, len) ==
    AsSeq([i \in 1..len |-> IF i <= file.len THEN FileByte(file, i - 1)
                            ELSE padding[i - file.len]])

\* Where the target region of an operation starts in the flash.
RegionBase(o) == IF o.data_region THEN DATA_FLASH_ADDR ELSE 0

\* The running operation verifies what the operation before it wrote.
VerifiesPrev ==
    /\ prev.valid
    /\ op.kind = "write" /\ ~op.write
    /\ op.file = prev.file
    /\ op.data_region = prev.data_region
    /\ op.fullfill = prev.fullfill

\* C4: after a write that succeeded, the verify of the same file with the
\* same parameters succeeds if and only if the flash holds the padded image
\* that was written (every transfer complete, the device without fault).
C4_WriteVerifyRoundTrip ==
    (VerifiesPrev /\ pc = "idle" /\ nFaults = 0) =>
        (result = "ok" <=>
            FlashRange(flash, RegionBase(op), length)
                = Image(op.file, prev.pad, length))

\* The chunk commands of entries follow the offsets 0, 0x38, 0x70, ... and
\* cover len bytes.
RECURSIVE SumSizes(_)
SumSizes(entries) ==
    IF entries = <<>> THEN 0 ELSE Head(entries).size + SumSizes(Tail(entries))

ChunkCount(len) == (len + CHUNK - 1) \div CHUNK

ChunkPlan(entries, len) ==
    /\ Len(entries) = ChunkCount(len)
    /\ \A i \in 1..Len(entries) :
        /\ entries[i].addr = (i - 1) * CHUNK
        /\ entries[i].size >= 1
        /\ entries[i].size <= CHUNK
    /\ SumSizes(entries) = len

\* C5: a read_data that succeeded has sent 19 read commands at offsets 0,
\* 0x38, 0x70, ..., each for at most 0x38 bytes and the last for 0x10, and
\* its sink holds exactly the 0x400 bytes of the data region in order.
C5_ReadDataReproduces ==
    (op.kind = "read_data" /\ pc = "idle" /\ result = "ok") =>
        /\ ChunkPlan(Commands, DATA_SIZE)
        /\ Len(Commands) = 19
        /\ Commands[19].size = 16
        /\ \A i \in 1..Len(Commands) : Commands[i].opcode = OP_READ
        /\ Len(sink) = DATA_SIZE
        /\ sink = DataRegion(flash)

\* C6: a write or verify that did not fail has sent exactly ceil(T/0x38)
\* chunk commands at offsets 0, 0x38, 0x70, ..., none larger than 0x38, their
\* sizes summing to the target length T; for a Data image of 0x400 bytes
\* without fullfill that is 19 commands, the last of 0x10 bytes.  No chunk
\* of any operation is larger than 0x38.
C6_ChunkCount ==
    /\ \A i \in 1..Len(log) : log[i].size <= CHUNK
    /\ (op.kind = "write" /\ pc = "idle" /\ result = "ok") =>
        /\ ChunkPlan(Commands, length)
        /\ \A i \in 1..Len(Commands) :
            Commands[i].opcode
                = write_verify_opcode(op.write, op.data_region)
        /\ (op.data_region /\ ~op.fullfill /\ length = DATA_SIZE) =>
            /\ Len(Commands) = 19
            /\ Commands[19].size = 16

\* A Data image of 0x400 bytes written without fullfill.
C6_Witness ==
    /\ op.kind = "write" /\ op.write /\ op.data_region /\ ~op.fullfill
    /\ pc = "idle" /\ result = "ok"
    /\ length = DATA_SIZE
    /\ Len(Commands) = 19
    /\ Commands[19].size = 16

\* C7: two writes with fullfill of the same short file under the same seed
\* send the same padding.
C7_SameSeedSamePadding ==
    (/\ prev.valid /\ prev.fullfill
     /\ op.kind = "write" /\ op.write /\ op.fullfill
     /\ op.file = prev.file /\ op.data_region = prev.data_region
     /\ seed /= NoSeed /\ prev.seed = seed
     /\ pc = "idle" /\ result = "ok")
        => pad = prev.pad

\* The errors of the running (or last) operation end it: a command that
\* failed is the last one it sent and its error is what the operation
\* returned; a flash command whose response shows a nonzero status has
\* failed.
ErrorsEndOperation ==
    /\ \A i \in 1..Len(log) :
        log[i].err /= "ok" =>
            i = Len(log) /\ pc = "idle" /\ result = log[i].err
    /\ (last.opcode \in FlashOpcodes
            /\ (last.err /= "ok" \/ HostStatus(last) /= 0))
        => /\ pc = "idle"
           /\ result \notin {"ok", "none"}
           /\ log[Len(log)].err = result

\* C8: the first exchange that fails, or whose response shows a nonzero
\* status, ends the operation: that command is the last one the operation
\* sent, the operation has returned its error, the only step that follows
\* is the call of another operation, and the failing step leaves the chunks
\* programmed before it as they are.
C8_ErrorsAreTerminal ==
    [][/\ nOps' >= 1 => ErrorsEndOperation'
       /\ (nOps >= 1 /\ \E i \in 1..Len(log) : log[i].err /= "ok")
            => nOps' = nOps + 1 /\ flash' = flash
       /\ (pc = "write" /\ pc' = "idle" /\ result' /= "ok")
            => FlashRange(flash', RegionBase(op), offset)
                    = FlashRange(flash, RegionBase(op), offset)]_vars

\* A write that failed at a later chunk, the chunks before it programmed.
C8_Witness ==
    /\ op.kind = "write" /\ op.write
    /\ pc = "idle" /\ result = "failed to flash"
    /\ offset >= CHUNK
    /\ Len(Commands) >= 2
    /\ FlashRange(flash, RegionBase(op), CHUNK) = Image(op.file, <<>>, CHUNK)

\* The failures of write() the claim C9 lists.
InvalidSource(o) ==
    \/ ~o.file.regular
    \/ o.data_region /\ ~o.fullfill /\ o.file.len /= DATA_SIZE
    \/ o.data_region /\ o.file.len > DATA_SIZE
    \/ ~o.data_region /\ o.file.len > CODE_LIMIT

ValidationErrors ==
    { "not a regular file", "file size should be 0x400",
      "file size is too large for data", "file size is too large for code" }

\* C9: a write whose source file fails validation returns the validation
\* error without sending anything: no reset-key exchange, no command,
\* key_is_reset and the flash unchanged.
C9_ValidationBeforeDevice ==
    [][(nOps' = nOps + 1 /\ op'.kind = "write" /\ op'.file.exists
            /\ InvalidSource(op'))
        => /\ pc' = "idle"
           /\ result' \in ValidationErrors
           /\ log' = <<>> /\ request' = <<>> /\ last' = NoTransfer
           /\ key_is_reset' = key_is_reset
           /\ nResetKey' = nResetKey
           /\ flash' = flash]_vars

\* A connected session whose key is not reset rejected a source file.
C9_Witness ==
    /\ handle /\ ~key_is_reset /\ nResetKey = 0
    /\ op.kind = "write" /\ InvalidSource(op)
    /\ pc = "idle" /\ result \in ValidationErrors
    /\ log = <<>>

\* C10: send_receive returns Ok only if the bulk IN transfer read exactly
\* the expected number of bytes.
C10_ExactResponseLength ==
    last.err = "ok" => last.received = last.explen


\* C11: no command is handed to the transport before initialize has found a
\* bulk IN and a bulk OUT endpoint and has claimed the interface, whatever
\* the descriptor layout (an interface without alternate setting and a
\* setting without endpoints included).
C11_CommandsNeedEndpoints ==
    log /= <<>> => usb.found /\ usb.claimed

\* The first endpoint of a setting that is bulk and of the given direction,
\* 0 if there is none.
RECURSIVE FirstBulk(_, _)
FirstBulk(eps, dir) ==
    IF eps = <<>> THEN 0
    ELSE IF Head(eps).dir = dir /\ Head(eps).type = "Bulk"
         THEN Head(eps).address
         ELSE FirstBulk(Tail(eps), dir)

HasDirection(eps, dir) == \E i \in 1..Len(eps) : eps[i].dir = dir

\* C12: over the first alternate setting, whatever its endpoint list,
\* discovery records the first bulk IN and the first bulk OUT address; it
\* fails when a direction has no endpoint, passes only if both directions
\* have a bulk endpoint, and a failed discovery ends initialization with
\* "failed to detect EPs" and no command.
C12_FirstBulkEndpoints ==
    (pc = "idle" /\ usb.layout.desc) =>
        LET eps == usb.layout.eps
        IN  /\ usb.found =>
                /\ ep_in = FirstBulk(eps, "In")
                /\ ep_out = FirstBulk(eps, "Out")
                /\ FirstBulk(eps, "In") /= 0
                /\ FirstBulk(eps, "Out") /= 0
            /\ (~HasDirection(eps, "In") \/ ~HasDirection(eps, "Out"))
                   => ~usb.found
            /\ ~usb.found =>
                /\ result = "failed to detect EPs"
                /\ log = <<>>
                /\ ~handle

\* The errors send_receive returns on a connected handle.
TransportErrors ==
    {"failed to do a bulk write", "failed to do a bulk write all data",
     "failed to do a bulk read response"}

\* What initialize reports for a failure of the detect exchange.
DetectFailures ==
    {e \o " on detect" : e \in TransportErrors}
        \cup {"failed to receive a valid response on detect"}

\* C13: handshake failures carry their phase: a failure of the detect
\* exchange is reported as a detect failure, and a failure of the identify
\* exchange is reported as something no detect failure is reported as.
C13_PhaseTagged ==
    (pc = "idle" /\ nOps = 0 /\ log /= <<>> /\ result /= "ok") =>
        /\ Len(log) = 1 => /\ log[1].opcode = OP_DETECT
                           /\ result \in DetectFailures
        /\ Len(log) = 2 => /\ log[2].opcode = OP_IDENTIFY
                           /\ result \notin DetectFailures

\* write() accepted its source file: it was opened and passed the checks.
Accepted ==
    /\ op.kind = "write"
    /\ op.file.exists
    /\ result \notin ValidationErrors

\* The Code image of 0xF100 bytes, written without fullfill.
OverData(o) ==
    /\ o.kind = "write"
    /\ ~o.data_region
    /\ ~o.fullfill
    /\ o.file.regular
    /\ o.file.len = CODE_FILL + 256

\* C14: the target length of an accepted write is, with fullfill, 0x400
\* for Data and for Code 0xF400 if the file is longer than 0xF000, else
\* 0xF000; without fullfill it is the file length. A Code image of 0xF100
\* bytes without fullfill is accepted and its target length is 0xF100.
C14_TargetLength ==
    /\ Accepted =>
          length = IF op.fullfill
                   THEN (IF op.data_region THEN 1024
                         ELSE IF op.file.len > 61440 THEN 62464 ELSE 61440)
                   ELSE op.file.len
    /\ OverData(op) => Accepted /\ length = 61696

\* The chunk loop of a write of the 0xF100-byte Code image is entered.
C14_Witness ==
    /\ OverData(op)
    /\ pc = "write"
    /\ length = 61696

\* The running (or last) operation's last command is a write or a verify,
\* and request is what it sent.
WriteVerifySent ==
    /\ log /= <<>>
    /\ log[Len(log)].opcode \in {OP_WRITE_DATA, OP_WRITE_CODE, OP_VERIFY}

\* Byte i (from 0) of the padded chunk of n bytes sent from offset off,
\* before any XOR: the file's bytes, then the bytes write() drew last, then
\* the filler.
Plain(i, off, n) ==
    LET rs == IF off >= op.file.len THEN 0
              ELSE IF op.file.len - off < n THEN op.file.len - off ELSE n
    IN  IF i < rs THEN FileByte(op.file, off + i)
        ELSE IF i < n THEN pad[Len(pad) - (n - rs) + (i - rs) + 1]
        ELSE 255

\* C15: in a write/verify request the payload is the chunk padded to the
\* next multiple of 8 (at most 0x38); the bytes at payload indices 7, 15,
\* 23, ... are XORed with chip_id once, every other payload byte and the 8
\* header bytes are sent as they are.
C15_XorEveryEighth ==
    WriteVerifySent =>
        LET off == log[Len(log)].addr
            n == log[Len(log)].size
            padded == Len(request) - 8
        IN  /\ padded % 8 = 0
            /\ n <= padded
            /\ padded < n + 8
            /\ padded <= 56
            /\ request[1] = log[Len(log)].opcode
            /\ request[2] = padded + 5
            /\ request[8] = padded
            /\ <<request[3], request[6], request[7]>> = <<0, 0, 0>>
            /\ request[4] + 256 * request[5] =
                  off + (IF op.data_region /\ ~op.write THEN 61440 ELSE 0)
            /\ \A i \in 0..(padded - 1) :
                  request[9 + i] = IF i % 8 = 7
                                   THEN Xor(Plain(i, off, n), chip_id)
                                   ELSE Plain(i, off, n)

\* A chunk of 44 bytes went out padded to 48, on a session whose chip id
\* is 0x59, and the device accepted it.
C15_Witness ==
    /\ WriteVerifySent
    /\ log[Len(log)].size = 44
    /\ Len(request) = 56
    /\ chip_id = 89
    /\ request[56] = Xor(255, 89)
    /\ last.err = "ok"
    /\ last.received = 6

\* The payload of a write/verify request with the XOR of every eighth byte
\* taken back.
Unmasked(req, chip) ==
    AsSeq([i \in 1..(Len(req) - 8) |->
              IF (i - 1) % 8 = 7 THEN Xor(req[8 + i], chip) ELSE req[8 + i]])

\* n bytes of a file from offset off, then filler up to the next multiple
\* of 8.
FileThenFiller(file, off, n) ==
    AsSeq([i \in 1..(((n + 7) \div 8) * 8) |->
              IF i <= n THEN FileByte(file, off + i - 1) ELSE 255])

\* C16: a write without fullfill draws no random byte: every request's
\* payload, before the chip_id XOR, is the file's bytes at the chunk's
\* offset followed by 0xFF up to the aligned length, so the requests are a
\* function of the file alone.
C16_NoRandomWithoutFullfill ==
    (op.kind = "write" /\ ~op.fullfill) =>
        /\ pad = <<>>
        /\ \A k \in 1..Len(Commands) :
              Commands[k].addr = (k - 1) * 56
        /\ WriteVerifySent =>
              /\ log[Len(log)].addr + log[Len(log)].size <= op.file.len
              /\ Unmasked(request, chip_id) =
                    FileThenFiller(op.file, log[Len(log)].addr,
                                   log[Len(log)].size)

\* A write without fullfill sent the last chunk of a file whose length is
\* no multiple of 8, with its filler, and finished.
C16_Witness ==
    /\ op.kind = "write"
    /\ ~op.fullfill
    /\ op.write
    /\ op.file.len = 100
    /\ result = "ok"
    /\ Len(Commands) = 2
    /\ request[8] = 48
    /\ Unmasked(request, chip_id)[48] = 255

\* The offsets the loop of write() takes for a target length.
ChunkOffsets(len) == {k * 56 : k \in 0..((len + 55) \div 56 - 1)}

\* C17: for every chunk of an accepted write or verify, the address field
\* of the request is the chunk's offset, plus 0xF000 when the data region
\* is verified, and the length byte is the padded chunk length plus 5;
\* neither wraps around (16 and 8 bits).
C17_AddressField ==
    (Accepted /\ pc = "write") =>
        \A off \in ChunkOffsets(length) :
            LET n == IF length - off > 56 THEN 56 ELSE length - off
                h == write_verify_header(AsU16(off), n, op.write,
                                         op.data_region)
                field == h[4] + 256 * h[5]
                padded == ((n + 7) \div 8) * 8
            IN  /\ field = IF op.data_region /\ ~op.write
                           THEN off + 61440 ELSE off
                /\ field < 65536
                /\ h[4] < 256
                /\ h[5] < 256
                /\ h[2] = padded + 5
                /\ h[2] < 256
                /\ h[8] = padded

\* The loops entered with the highest addresses: a verify of the data region
\* and a write of a Code image of full size.
C17_Witness ==
    /\ Accepted
    /\ pc = "write"
    /\ \/ op.data_region /\ ~op.write /\ length = 1024
       \/ ~op.data_region /\ op.write /\ length = 62464
    /\ key_is_reset

\* C18: once the session is constructed, no step of erase, erase_data,
\* read_data, write or reset_key changes chip_id, version, sum, ep_in or
\* ep_out; key_is_reset never goes back to false, and it becomes true only
\* in reset_key, on an exchange that returned Ok.
C18_SessionImmutable ==
    [][pc /= "new" =>
         /\ UNCHANGED <<chip_id, version, sum, ep_in, ep_out>>
         /\ key_is_reset => key_is_reset'
         /\ key_is_reset' /= key_is_reset =>
               /\ pc = "reset_key"
               /\ nResetKey' = nResetKey + 1
               /\ request'[1] = OP_RESET_KEY
               /\ last'.err = "ok"]_vars

\* A second operation runs its command on a session whose key the first
\* one reset.
C18_Witness ==
    /\ nOps = 2
    /\ key_is_reset
    /\ nResetKey = 1
    /\ Commands /= <<>>
    /\ chip_id = 89
    /\ ep_in = 130
    /\ ep_out = 2

\* What Ch559::new leaves in result when it found no device or initialize
\* failed.
ConstructionFailures ==
    {"no device", "failed to check configurations",
     "failed to check interfaces", "failed to detect EPs",
     "failed to activate the target configuration",
     "failed to claim the target interface"}
        \cup DetectFailures

\* C19: a construction that finds no device or fails at any step leaves
\* the session without handle (is_connected is false), and on such a
\* session every erase, erase_data, read_data and write fails and hands
\* nothing to the transport; a session with a handle has chip_id 0x59.
C19_DisconnectedSendsNothing ==
    /\ (pc = "idle" /\ nOps = 0) =>
          /\ handle <=> result = "ok"
          /\ ~handle => result \in ConstructionFailures
    /\ (~handle /\ nOps > 0) =>
          /\ pc = "idle"
          /\ result \notin {"ok", "none"}
          /\ log = <<>>
          /\ request = <<>>
          /\ last = NoTransfer
          /\ nResetKey = 0
          /\ ~key_is_reset
          /\ flash = EmptyFlash
    /\ handle => chip_id = 89 /\ usb.claimed

\* A write was refused on a session that lost its handle in the identify
\* exchange, after the device had answered detect with 0x59.
C19_Witness ==
    /\ ~handle
    /\ chip_id = 89
    /\ usb.claimed
    /\ nOps = 2
    /\ op.kind = "write"
    /\ op.file.exists
    /\ result = "invalid handle"

\* The payload of a read response for size bytes at offset off of the data
\* region, of which the host received the first n bytes, header included:
\* what was not received is still the buffer's zero.
ReceivedPayload(fl, off, size, n) ==
    AsSeq([i \in 1..size |->
              IF 6 + i <= n THEN FlashAt(fl, 61440 + off + i - 1) ELSE 0])

\* C20: read_data creates its destination, empty, before reset_key and
\* before any command; a chunk that succeeds appends exactly its payload to
\* the sink, and a reset-key exchange or a chunk that fails leaves the sink
\* as it was: empty after a failed reset-key, the first k chunks after a
\* failure at chunk k.
C20_SinkIsChunksRead ==
    [][op'.kind = "read_data" =>
         /\ pc = "idle" =>
               /\ sink' = <<>>
               /\ log' = <<>>
               /\ nResetKey' = nResetKey
               /\ offset' = 0
         /\ pc = "reset_key" =>
               /\ sink' = <<>>
               /\ Commands' = <<>>
               /\ result' /= "none" => result' /= "ok"
         /\ pc = "read_data" =>
               LET e == log'[Len(log')]
                   k == offset \div 56
               IN  /\ Len(sink) = 56 * k
                   /\ e.addr = 56 * k
                   /\ IF result' \in {"none", "ok"}
                      THEN /\ sink' = sink \o ReceivedPayload(flash, e.addr,
                                                     e.size, last'.received)
                           /\ Len(sink') = e.addr + e.size
                      ELSE /\ sink' = sink
                           /\ pc' = "idle"]_vars

\* read_data failed at its third chunk: the sink holds the two chunks read
\* before, which are the first 112 bytes of the data region.
C20_Witness ==
    /\ op.kind = "read_data"
    /\ pc = "idle"
    /\ result = "failed to read"
    /\ Len(Commands) = 3
    /\ Len(sink) = 112
    /\ sink = FlashRange(flash, 61440, 112)

\* The log of the running (or last) operation holds a command of the opcode,
\* resp. one that returned Ok.
Sent(opcode) == \E i \in 1..Len(log) : log[i].opcode = opcode

SentOk(opcode) ==
    \E i \in 1..Len(log) : log[i].opcode = opcode /\ log[i].err = "ok"

\* The erase call of the write and write_data options has returned.
EraseReturned ==
    /\ run.exit = "none"
    /\ run.step \in {"write", "write_data"}
    /\ run.on
    /\ pc = "idle"
    /\ nOps - run.base = 1
    /\ run.checked = 0

\* C21: in main a write chunk (0xA5, resp. 0xAA) is sent only after an
\* erase of the same region (0xA4, resp. 0xA9) returned Ok earlier in the
\* run; if the erase of the write or write_data option fails, main exits
\* with IOERR having sent no write chunk; the options are taken in the
\* order erase, write, compare, erase_data, read_data, write_data,
\* compare_data, each call being the one its option asks for, and the
\* first call that fails ends the run, after which nothing is sent.
C21_EraseBeforeWrite ==
    [][/\ Sent(OP_WRITE_CODE) => "erase" \in run.erased
       /\ Sent(OP_WRITE_DATA) => "erase_data" \in run.erased
       /\ ("erase" \in run'.erased /\ "erase" \notin run.erased) =>
             /\ op.kind = "erase"
             /\ result = "ok"
             /\ SentOk(OP_ERASE)
       /\ ("erase_data" \in run'.erased /\ "erase_data" \notin run.erased) =>
             /\ op.kind = "erase_data"
             /\ result = "ok"
             /\ SentOk(OP_ERASE_DATA)
       /\ (EraseReturned /\ result /= "ok") =>
             /\ run'.exit = "IOERR"
             /\ log' = log
             /\ ~Sent(OP_WRITE_CODE)
             /\ ~Sent(OP_WRITE_DATA)
       /\ (run.exit = "none" /\ pc = "idle" /\ nOps > run.base
              /\ result /= "ok") => run'.exit = "IOERR"
       /\ run.exit /= "none" => UNCHANGED vars
       /\ StepIndex(run'.step) >= StepIndex(run.step)
       /\ nOps' = nOps + 1 =>
             /\ run.on
             /\ nOps - run.base < Len(Calls(run.step))
             /\ op'.kind = Calls(run.step)[nOps - run.base + 1]
             /\ op'.kind = "write" =>
                   /\ op'.write = (run.step \in {"write", "write_data"})
                   /\ op'.data_region =
                         (run.step \in {"write_data", "compare_data"})]_vars

\* The write option has erased the code region and sent the chunks of
\* FILENAME, and main has gone on.
C21_Witness ==
    /\ run.step = "compare"
    /\ "erase" \in run.erased
    /\ op.kind = "write"
    /\ op.write
    /\ Sent(OP_WRITE_CODE)
    /\ result = "ok"

\* main is at the write or write_data option, given without FILENAME, and
\* has exited.
ExitedUnnamed ==
    /\ run.step \in {"write", "write_data"}
    /\ run.on
    /\ ~run.named
    /\ run.exit /= "none"

\* C22: when write (or write_data) is given without FILENAME, main calls
\* the erase of that region first; the usage exit is taken only when that
\* erase returned Ok, its command sent after reset_key, and with no write
\* chunk sent; an erase that fails ends the run with IOERR instead.
C22_EraseBeforeFilenameCheck ==
    ExitedUnnamed =>
        LET opcode == IF run.step = "write" THEN OP_ERASE ELSE OP_ERASE_DATA
            kind == IF run.step = "write" THEN "erase" ELSE "erase_data"
        IN  /\ op.kind = kind
            /\ nOps = run.base + 1
            /\ ~Sent(OP_WRITE_CODE)
            /\ ~Sent(OP_WRITE_DATA)
            /\ run.exit \in {"USAGE", "IOERR"}
            /\ run.exit = "USAGE" <=> result = "ok"
            /\ run.exit = "USAGE" =>
                  /\ key_is_reset
                  /\ log /= <<>>
                  /\ log[Len(log)].opcode = opcode
                  /\ log[Len(log)].err = "ok"
                  /\ \A i \in 1..(Len(log) - 1) :
                        log[i].opcode = OP_RESET_KEY

\* write was given without FILENAME: the key was reset, the code region
\* erased, and main exited with the usage code.
C22_Witness ==
    /\ ExitedUnnamed
    /\ run.step = "write"
    /\ run.exit = "USAGE"
    /\ Len(log) = 2
    /\ log[1].opcode = OP_RESET_KEY
    /\ log[2].opcode = OP_ERASE
    /\ last.opcode = OP_ERASE
    /\ last.received = 6
    /\ result = "ok"

====
